---- MODULE Spec2Model ----
(***************************************************************************)
(* Model of the json_exporter collection engine                            *)
(* (exporter/collector.go, cmd probeHandler).                              *)
(*                                                                         *)
(* Representation.  A Go string is a sequence of one-character strings.    *)
(* A JSON byte buffer that is known to be valid JSON (probeHandler rejects *)
(* anything else before Collect runs, and json.Marshal output is valid) is *)
(* represented by the value json.Unmarshal yields for it:                  *)
(*   [t |-> "str", v |-> chars]           a JSON string                    *)
(*   [t |-> "num", v |-> digits]          a JSON number (a non-negative    *)
(*                                        integer below 10^6, for which    *)
(*                                        the %v rendering of the float64  *)
(*                                        is the literal itself)           *)
(*   [t |-> "arr", v |-> <<values>>]      a JSON array                     *)
(*   [t |-> "obj", v |-> [name -> value]] a JSON object                    *)
(***************************************************************************)
EXTENDS Naturals, Sequences, FiniteSets, TLC

VARIABLES metrics, data, pc, idx, elems, ei, emitted, crashed, call

vars == <<metrics, data, pc, idx, elems, ei, emitted, crashed, call>>

(***************************************************************************)
(* Strings                                                                 *)
(***************************************************************************)
UpperLetters == <<"A","B","C","D","E","F","G","H","I","J","K","L","M",
                  "N","O","P","Q","R","S","T","U","V","W","X","Y","Z">>

LowerLetters == <<"a","b","c","d","e","f","g","h","i","j","k","l","m",
                  "n","o","p","q","r","s","t","u","v","w","x","y","z">>

DigitChars == <<"0","1","2","3","4","5","6","7","8","9">>

IsLetter(c) == \E i \in DOMAIN UpperLetters : c = UpperLetters[i] \/ c = LowerLetters[i]

IsDigit(c) == \E i \in DOMAIN DigitChars : c = DigitChars[i]

ToLowerChar(c) ==
    IF \E i \in DOMAIN UpperLetters : UpperLetters[i] = c
    THEN LowerLetters[CHOOSE i \in DOMAIN UpperLetters : UpperLetters[i] = c]
    ELSE c

\* strings.ToLower
RECURSIVE ToLower(_)
ToLower(s) == IF s = <<>> THEN <<>> ELSE <<ToLowerChar(Head(s))>> \o ToLower(Tail(s))

\* strings.ReplaceAll(path, " ", "")
RemoveSpaces(s) == SelectSeq(s, LAMBDA c : c # " ")

\* s[0:n] of a string with at least n characters
Prefix(s, n) == SubSeq(s, 1, n)

\* strings.Contains(s, c) for a one-character c
ContainsChar(s, c) == \E i \in DOMAIN s : s[i] = c

\* The sequence from position i (1-based) to the end
From(s, i) == SubSeq(s, i, Len(s))

(***************************************************************************)
(* JSON values                                                             *)
(***************************************************************************)
JStr(s) == [t |-> "str", v |-> s]
JNum(d) == [t |-> "num", v |-> d]
JArr(a) == [t |-> "arr", v |-> a]
JObj(o) == [t |-> "obj", v |-> o]

\* Position of a character in the ordering used to sort object keys
CharRank(c) ==
    IF \E i \in DOMAIN LowerLetters : LowerLetters[i] = c
    THEN 100 + (CHOOSE i \in DOMAIN LowerLetters : LowerLetters[i] = c)
    ELSE IF \E i \in DOMAIN UpperLetters : UpperLetters[i] = c
    THEN 60 + (CHOOSE i \in DOMAIN UpperLetters : UpperLetters[i] = c)
    ELSE IF IsDigit(c)
    THEN 40 + (CHOOSE i \in DOMAIN DigitChars : DigitChars[i] = c)
    ELSE 0

RECURSIVE StrLess(_, _)
StrLess(a, b) ==
    IF b = <<>> THEN FALSE
    ELSE IF a = <<>> THEN TRUE
    ELSE IF CharRank(Head(a)) # CharRank(Head(b)) THEN CharRank(Head(a)) < CharRank(Head(b))
    ELSE StrLess(Tail(a), Tail(b))

\* The keys of an object in the order encoding/json writes them (sorted)
RECURSIVE SortedKeys(_)
SortedKeys(ks) ==
    IF ks = {} THEN <<>>
    ELSE LET k == CHOOSE x \in ks : \A y \in ks \ {x} : StrLess(x, y)
         IN  <<k>> \o SortedKeys(ks \ {k})

\* The body of a JSON string literal: encoding/json escapes the quote character
RECURSIVE EscapeJSON(_)
EscapeJSON(s) ==
    IF s = <<>> THEN <<>>
    ELSE (IF Head(s) = "\"" THEN <<"\\", "\"">> ELSE <<Head(s)>>) \o EscapeJSON(Tail(s))

\* json.Marshal of a value (compact form)
RECURSIVE Marshal(_)
RECURSIVE MarshalSeq(_)
RECURSIVE MarshalFields(_, _)
Marshal(x) ==
    CASE x.t = "str" -> <<"\"">> \o EscapeJSON(x.v) \o <<"\"">>
      [] x.t = "num" -> x.v
      [] x.t = "arr" -> <<"[">> \o MarshalSeq(x.v) \o <<"]">>
      [] x.t = "obj" -> <<"{">> \o MarshalFields(x.v, SortedKeys(DOMAIN x.v)) \o <<"}">>

MarshalSeq(a) ==
    IF a = <<>> THEN <<>>
    ELSE Marshal(Head(a)) \o (IF Len(a) > 1 THEN <<",">> ELSE <<>>) \o MarshalSeq(Tail(a))

MarshalFields(o, ks) ==
    IF ks = <<>> THEN <<>>
    ELSE <<"\"">> \o EscapeJSON(Head(ks)) \o <<"\"", ":">> \o Marshal(o[Head(ks)])
         \o (IF Len(ks) > 1 THEN <<",">> ELSE <<>>) \o MarshalFields(o, Tail(ks))

(***************************************************************************)
(* k8s.io/client-go/util/jsonpath, as extractValue uses it.                *)
(*                                                                         *)
(* The modelled template language: text outside braces, and inside braces  *)
(* the root and current markers $ and @, spaces, field steps .name, and    *)
(* the full array slice [*].  A bare identifier inside braces parses and   *)
(* then fails to execute.  Other constructs of the library (recursive      *)
(* descent, quoted text, numbers, filters, index and union forms, the      *)
(* wildcard field and the keywords true, false, range, end) are outside    *)
(* the model: no path of the model uses them and they are given as errors. *)
(* A parse error and an execution error both make extractValue return its  *)
(* error, so the two are one outcome here.                                 *)
(***************************************************************************)
TextNode(s)  == [k |-> "text", s |-> s, steps |-> <<>>]
ListNode(st) == [k |-> "list", s |-> <<>>, steps |-> st]

FieldStep(n) == [k |-> "field", s |-> n]
ArrayStep    == [k |-> "array", s |-> <<>>]
IdentStep(n) == [k |-> "ident", s |-> n]

\* isTerminator of the parser (the end of input is handled by the callers)
Terminators == {" ", ".", ",", "[", "]", "$", "@", "{", "}"}

\* Length of the longest prefix of s that holds no character of the set stop
RECURSIVE RunLength(_, _)
RunLength(s, stop) ==
    IF s = <<>> \/ Head(s) \in stop THEN 0 ELSE 1 + RunLength(Tail(s), stop)

ParseError == [err |-> TRUE, steps |-> <<>>, nodes |-> <<>>, rest |-> <<>>]

\* Parser.parseInsideAction with parseField, parseArray and parseIdentifier:
\* the steps of one action and the input that follows its closing brace
RECURSIVE ParseInsideAction(_, _)
ParseInsideAction(inp, steps) ==
    IF inp = <<>> THEN ParseError
    ELSE LET c == Head(inp)
             r == Tail(inp)
         IN  CASE c = "}" -> [err |-> FALSE, steps |-> steps, nodes |-> <<>>, rest |-> r]
               [] c \in {" ", "@", "$"} -> ParseInsideAction(r, steps)
               [] c = "." ->
                    IF r # <<>> /\ Head(r) = "." THEN ParseError
                    ELSE LET n == RunLength(r, Terminators)
                             name == SubSeq(r, 1, n)
                         IN  IF name = <<"*">> THEN ParseError
                             ELSE ParseInsideAction(From(r, n + 1), Append(steps, FieldStep(name)))
               [] c = "[" ->
                    LET n == RunLength(r, {"]"})
                    IN  IF n = Len(r) THEN ParseError
                        ELSE IF SubSeq(r, 1, n) = <<"*">>
                        THEN ParseInsideAction(From(r, n + 2), Append(steps, ArrayStep))
                        ELSE ParseError
               [] IsLetter(c) ->
                    LET n == RunLength(inp, Terminators)
                    IN  ParseInsideAction(From(inp, n + 1), Append(steps, IdentStep(SubSeq(inp, 1, n))))
               [] OTHER -> ParseError

\* Parser.parseText: the nodes of a template
RECURSIVE ParseText(_)
ParseText(inp) ==
    LET n == RunLength(inp, {"{"})
        text == IF n = 0 THEN <<>> ELSE <<TextNode(SubSeq(inp, 1, n))>>
    IN  IF n = Len(inp) THEN [err |-> FALSE, steps |-> <<>>, nodes |-> text, rest |-> <<>>]
        ELSE LET a == ParseInsideAction(From(inp, n + 2), <<>>)
             IN  IF a.err THEN ParseError
                 ELSE LET t == ParseText(a.rest)
                      IN  IF t.err THEN ParseError
                          ELSE [err |-> FALSE, steps |-> <<>>,
                                nodes |-> text \o <<ListNode(a.steps)>> \o t.nodes,
                                rest |-> <<>>]

EvalError == [err |-> TRUE, vals |-> <<>>]

\* The values of an object's field over a list of inputs (evalField's loop)
RECURSIVE FieldValues(_, _)
FieldValues(cur, name) ==
    IF cur = <<>> THEN <<>>
    ELSE LET x == Head(cur)
         IN  (IF x.t = "obj" /\ name \in DOMAIN x.v THEN <<x.v[name]>> ELSE <<>>)
             \o FieldValues(Tail(cur), name)

\* The elements of every array of a list of arrays (evalArray's loop)
RECURSIVE ArrayValues(_)
ArrayValues(cur) ==
    IF cur = <<>> THEN <<>> ELSE Head(cur).v \o ArrayValues(Tail(cur))

\* JSONPath.evalList: the steps of one action applied in turn
RECURSIVE EvalSteps(_, _)
EvalSteps(cur, steps) ==
    IF steps = <<>> THEN [err |-> FALSE, vals |-> cur]
    ELSE LET st == Head(steps)
         IN  CASE st.k = "field" ->
                    IF cur = <<>> \/ st.s = <<>> THEN EvalSteps(cur, Tail(steps))
                    ELSE LET res == FieldValues(cur, st.s)
                         IN  IF res = <<>> THEN EvalError ELSE EvalSteps(res, Tail(steps))
               [] st.k = "array" ->
                    IF \E i \in DOMAIN cur : cur[i].t # "arr" THEN EvalError
                    ELSE EvalSteps(ArrayValues(cur), Tail(steps))
               [] OTHER -> EvalError

\* JSONPath.FindResults: one list of results per node of the template
RECURSIVE FindResults(_, _)
FindResults(root, nodes) ==
    IF nodes = <<>> THEN [err |-> FALSE, vals |-> <<>>]
    ELSE LET nd == Head(nodes)
             r  == IF nd.k = "text" THEN [err |-> FALSE, vals |-> <<JStr(nd.s)>>]
                   ELSE EvalSteps(<<root>>, nd.steps)
         IN  IF r.err THEN EvalError
             ELSE LET rest == FindResults(root, Tail(nodes))
                  IN  IF rest.err THEN EvalError
                      ELSE [err |-> FALSE, vals |-> <<r.vals>> \o rest.vals]

\* JSONPath.evalToText, and json.Marshal for maps and slices
EvalToText(x) == IF x.t \in {"str", "num"} THEN x.v ELSE Marshal(x)

\* JSONPath.PrintResults without JSON output: the results separated by spaces
RECURSIVE PrintResults(_)
PrintResults(rs) ==
    IF rs = <<>> THEN <<>>
    ELSE EvalToText(Head(rs)) \o (IF Len(rs) > 1 THEN <<" ">> ELSE <<>>) \o PrintResults(Tail(rs))

\* JSONPath.Execute without JSON output
RECURSIVE ExecuteText(_)
ExecuteText(full) ==
    IF full = <<>> THEN <<>> ELSE PrintResults(Head(full)) \o ExecuteText(Tail(full))

\* jsonpath.UnquoteExtend for a string without backslashes
UnquoteExtend(s) ==
    LET n == Len(s)
    IN  IF n < 2 \/ s[1] # s[n] \/ s[1] \notin {"\"", "'"} THEN [err |-> TRUE, val |-> <<>>]
        ELSE IF ContainsChar(SubSeq(s, 2, n - 1), s[1]) THEN [err |-> TRUE, val |-> <<>>]
        ELSE [err |-> FALSE, val |-> SubSeq(s, 2, n - 1)]

(***************************************************************************)
(* extractValue.  Without JSON output the result is the text written to    *)
(* the buffer, unquoted when it is a quoted string.  With JSON output the  *)
(* buffer holds one indented JSON array per template node; it is           *)
(* represented by the list of those arrays (the text starts with a bracket *)
(* or is empty, so UnquoteExtend fails and the text is returned as it is). *)
(***************************************************************************)
extractValue(bytes, path, enableJSONOutput) ==
    LET p == ParseText(path)
        f == IF p.err THEN EvalError ELSE FindResults(bytes, p.nodes)
    IN  IF f.err THEN [err |-> TRUE, out |-> <<>>]
        ELSE IF enableJSONOutput THEN [err |-> FALSE, out |-> f.vals]
        ELSE LET buf == ExecuteText(f.vals)
                 u   == UnquoteExtend(buf)
             IN  [err |-> FALSE, out |-> IF u.err THEN buf ELSE u.val]

\* json.Unmarshal of extractValue's JSON output into a []interface{}: the
\* text is a JSON array exactly when the template has one node
UnmarshalArray(values) ==
    IF Len(values) = 1 THEN [err |-> FALSE, arr |-> values[1]]
    ELSE [err |-> TRUE, arr |-> <<>>]

(***************************************************************************)
(* The collector's helpers (exporter/collector.go)                         *)
(***************************************************************************)

\* The JSONMetric struct, without the fields the exposition layer alone
\* reads (Desc, ValueType).  A nil ValueConverter is the empty map: a lookup
\* in either misses.
JSONMetric(type, key, value, labels, converter, epoch) ==
    [Type |-> type, KeyJSONPath |-> key, ValueJSONPath |-> value,
     LabelsJSONPaths |-> labels, ValueConverter |-> converter,
     EpochTimestampJSONPath |-> epoch]

\* The two scrape types of the configuration package
ValueScrapeType  == "value"
ObjectScrapeType == "object"

RECURSIVE ParseDigits(_, _)
ParseDigits(s, acc) ==
    IF s = <<>> THEN acc
    ELSE ParseDigits(Tail(s),
                     acc * 10 + ((CHOOSE i \in DOMAIN DigitChars : DigitChars[i] = Head(s)) - 1))

\* SanitizeValue (exporter/util.go): a number for a numeric text, an error
\* for any other text.  The numeric texts of the model are the non-empty
\* runs of decimal digits.
SanitizeValue(s) ==
    IF s # <<>> /\ \A i \in DOMAIN s : IsDigit(s[i])
    THEN [err |-> FALSE, val |-> ParseDigits(s, 0)]
    ELSE [err |-> TRUE, val |-> 0]

\* convertValueIfNeeded
convertValueIfNeeded(m, value) ==
    IF m.ValueJSONPath \in DOMAIN m.ValueConverter
    THEN LET valueMappings == m.ValueConverter[m.ValueJSONPath]
             lowered == ToLower(value)
         IN  IF lowered \in DOMAIN valueMappings THEN valueMappings[lowered] ELSE lowered
    ELSE value

\* selectRightJsonData.  noSpacePath[0:4] panics when the path without its
\* spaces has fewer than four characters.
selectRightJsonData(rootData, childData, path) ==
    LET noSpacePath == RemoveSpaces(path)
    IN  IF Len(noSpacePath) < 4
        THEN [panic |-> TRUE, scope |-> "none", bytes |-> childData]
        ELSE IF ContainsChar(Prefix(noSpacePath, 4), "$")
        THEN [panic |-> FALSE, scope |-> "root", bytes |-> rootData]
        ELSE [panic |-> FALSE, scope |-> "child", bytes |-> childData]

\* One position of the labels slice: the result, or the empty string the
\* slice was made with
LabelAt(bytes, path) ==
    LET r == extractValue(bytes, path, FALSE) IN IF r.err THEN <<>> ELSE r.out

\* extractLabels
RECURSIVE extractLabels(_, _)
extractLabels(bytes, paths) ==
    IF paths = <<>> THEN <<>>
    ELSE <<LabelAt(bytes, Head(paths))>> \o extractLabels(bytes, Tail(paths))

\* extractLabelsWithParentNode: the labels, or the panic of the first path
\* selectRightJsonData cannot slice
RECURSIVE extractLabelsWithParentNode(_, _, _)
extractLabelsWithParentNode(childData, rootData, paths) ==
    IF paths = <<>> THEN [panic |-> FALSE, labels |-> <<>>]
    ELSE LET selected == selectRightJsonData(rootData, childData, Head(paths))
         IN  IF selected.panic THEN [panic |-> TRUE, labels |-> <<>>]
             ELSE LET rest == extractLabelsWithParentNode(childData, rootData, Tail(paths))
                  IN  IF rest.panic THEN [panic |-> TRUE, labels |-> <<>>]
                      ELSE [panic |-> FALSE,
                            labels |-> <<LabelAt(selected.bytes, Head(paths))>> \o rest.labels]

(***************************************************************************)
(* Observations.  di is the position of the descriptor in JSONMetrics      *)
(* (0 for jsonExporterStatusDesc), el the position of the array element    *)
(* the observation was made for (0 when there is none).  Every metric is   *)
(* built by prometheus.MustNewConstMetric, which sets no timestamp.        *)
(***************************************************************************)
NoTimestamp == [set |-> FALSE, at |-> 0]

MustNewConstMetric(di, el, value, labels) ==
    [di |-> di, el |-> el, value |-> value, labels |-> labels, ts |-> NoTimestamp]

\* A send that overtakes what was sent before
SendAhead(ch, metric) == <<metric>> \o ch

\* The channel send ch <- metric
Send(ch, metric) == Append(ch, metric)

\* Collect without its first send
EmitStatusSkipped(ch) == ch

\* Collect, lines 60 to 64: the exporter status metric
EmitStatus(ch) == Send(ch, MustNewConstMetric(0, 0, 0, <<>>))

\* Collect, case config.ValueScrape: the metrics sent for descriptor di
ValueScrapeMetrics(m, di, bytes) ==
    LET value == extractValue(bytes, m.KeyJSONPath, FALSE)
        float == SanitizeValue(value.out)
    IN  IF value.err \/ float.err THEN <<>>
        ELSE <<MustNewConstMetric(di, 0, float.val, extractLabels(bytes, m.LabelsJSONPaths))>>

\* Collect, case config.ObjectScrape up to the loop: jsonData, or the error
\* of the extraction or of json.Unmarshal
ObjectScrapeArray(m, bytes) ==
    LET values == extractValue(bytes, m.KeyJSONPath, TRUE)
    IN  IF values.err THEN [err |-> TRUE, arr |-> <<>>] ELSE UnmarshalArray(values.out)

\* Collect, the body of the loop over jsonData for element el: the metrics
\* sent, or the panic of the label extraction.  json.Marshal of an element
\* json.Unmarshal produced cannot fail.
ObjectElementMetrics(m, di, el, jdata, rootData) ==
    LET value == extractValue(jdata, m.ValueJSONPath, FALSE)
        float == SanitizeValue(convertValueIfNeeded(m, value.out))
    IN  IF value.err \/ float.err THEN [panic |-> FALSE, sent |-> <<>>]
        ELSE LET l == extractLabelsWithParentNode(jdata, rootData, m.LabelsJSONPaths)
             IN  IF l.panic THEN [panic |-> TRUE, sent |-> <<>>]
                 ELSE [panic |-> FALSE,
                       sent |-> <<MustNewConstMetric(di, el, float.val, l.labels)>>]

(***************************************************************************)
(* Inputs: the paths, the descriptors and the root documents               *)
(***************************************************************************)
PathC          == <<"{", ".", "c", "}">>
PathStatus     == <<"{", ".", "s", "t", "a", "t", "u", "s", "}">>
PathRootStatus == <<"{", " ", "$", ".", "s", "t", "a", "t", "u", "s", " ", "}">>
PathItems      == <<"{", ".", "i", "t", "e", "m", "s", "[", "*", "]", "}">>
PathV          == <<"{", ".", "v", "}">>
PathN          == <<"{", " ", ".", "n", " ", "}">>
PathTs         == <<"{", ".", "t", "s", "}">>
PathNone       == <<"{", ".", "n", "o", "n", "e", "}">>
\* a static label: a template of text alone yields the text
PathDev        == <<"d", "e", "v">>
PathProd       == <<"p", "r", "o", "d">>
\* the root marker after the field: the parser skips it wherever it stands
PathNLate      == <<"{", ".", "n", "$", "}">>
\* the root marker alone: the document itself
PathRoot       == <<"$">>
PathUnclosed   == <<"{", ".", "v">>

NilConverter == <<>>

StateConverter ==
    PathV :> ((<<"u", "p">> :> <<"1">>) @@ (<<"d", "o", "w", "n">> :> <<"0">>))

\* The descriptors a configuration is made of
MetricPool ==
    { JSONMetric(ValueScrapeType, PathC, <<>>, <<PathStatus>>, NilConverter, <<>>),
      JSONMetric(ValueScrapeType, PathStatus, <<>>, <<>>, NilConverter, PathTs),
      JSONMetric(ObjectScrapeType, PathItems, PathV, <<PathRootStatus, PathN>>, NilConverter, <<>>),
      JSONMetric(ObjectScrapeType, PathItems, PathV, <<PathStatus>>, StateConverter, PathTs),
      JSONMetric(ObjectScrapeType, PathItems, PathV, <<PathDev>>, NilConverter, <<>>),
      JSONMetric("other", PathC, <<>>, <<>>, NilConverter, <<>>) }

\* The longest descriptor list
MaxMetrics == 2

MetricLists == UNION { [1..n -> MetricPool] : n \in 0..MaxMetrics }

S1(a) == JStr(<<a>>)

Doc1 ==
    JObj((<<"s","t","a","t","u","s">> :> JStr(<<"u","p">>)) @@
         (<<"c">> :> S1("7")) @@
         (<<"t","s">> :> S1("9")) @@
         (<<"i","t","e","m","s">> :> JArr(<<
             JObj((<<"v">> :> S1("3")) @@ (<<"n">> :> S1("a")) @@
                  (<<"s","t","a","t","u","s">> :> JStr(<<"l","o">>)) @@ (<<"t","s">> :> S1("8"))),
             JObj((<<"v">> :> JStr(<<"B","a","d">>)) @@ (<<"n">> :> S1("b"))),
             JObj(<<"v">> :> JStr(<<"U","P">>)) >>)))

Doc2 ==
    JObj((<<"s","t","a","t","u","s">> :> JStr(<<"d","n">>)) @@
         (<<"c">> :> S1("x")) @@
         (<<"i","t","e","m","s">> :> JArr(<<>>)))

Doc3 ==
    JObj((<<"s","t","a","t","u","s">> :> JStr(<<"1","2">>)) @@
         (<<"c">> :> JNum(<<"4">>)) @@
         (<<"i","t","e","m","s">> :> JArr(<<
             JObj(<<"x">> :> S1("1")),
             JObj((<<"v">> :> JNum(<<"1","2">>)) @@ (<<"n">> :> S1("z"))) >>)))

Doc4 ==
    JObj((<<"s","t","a","t","u","s">> :> JStr(<<"o","k">>)) @@
         (<<"c">> :> JStr(<<"\"", "8", "\"">>)))

Docs == {Doc1, Doc2, Doc3, Doc4}

\* The concurrent probes
Runs == {1, 2}

(***************************************************************************)
(* Collect as a state machine.  One step is taken per channel send or per  *)
(* skipped descriptor or element.  A panic is not recovered in Collect,    *)
(* which the registry calls on a goroutine of its own: it ends the         *)
(* process, and with it every other run.                                   *)
(***************************************************************************)
NoCall ==
    [fn |-> "none", m |-> JSONMetric("other", <<>>, <<>>, <<>>, NilConverter, <<>>),
     raw |-> <<>>, conv |-> <<>>, root |-> Doc4, child |-> Doc4, paths |-> <<>>,
     plain |-> <<>>, scoped |-> [panic |-> FALSE, labels |-> <<>>],
     path |-> <<>>, sel |-> [panic |-> FALSE, scope |-> "none"]]

InitRuns(active) ==
    /\ metrics \in MetricLists
    /\ data \in [Runs -> Docs]
    /\ \A r \in Runs \ active : data[r] = Doc4
    /\ pc = [r \in Runs |-> IF r \in active THEN "init" ELSE "off"]
    /\ idx = [r \in Runs |-> 0]
    /\ elems = [r \in Runs |-> <<>>]
    /\ ei = [r \in Runs |-> 0]
    /\ emitted = [r \in Runs |-> <<>>]
    /\ crashed = FALSE
    /\ call = NoCall

\* One probe at a time
Init == InitRuns({1})

\* Two probes at once
InitConc == InitRuns(Runs)

\* Collect, lines 58 to 64
CollectBegin(r) ==
    /\ ~crashed
    /\ pc[r] = "init"
    /\ emitted' = [emitted EXCEPT ![r] = EmitStatus(emitted[r])]
    /\ idx' = [idx EXCEPT ![r] = 1]
    /\ pc' = [pc EXCEPT ![r] = "loop"]
    /\ UNCHANGED <<metrics, data, elems, ei, crashed, call>>

\* The metrics of one step, sent in turn
SendAll(ch, sent) == IF sent = <<>> THEN ch ELSE Send(ch, sent[1])

\* Collect, lines 68 to 86
ValueScrape(r) ==
    /\ ~crashed
    /\ pc[r] = "loop"
    /\ idx[r] <= Len(metrics)
    /\ metrics[idx[r]].Type = ValueScrapeType
    /\ emitted' = [emitted EXCEPT
                     ![r] = SendAll(@, ValueScrapeMetrics(metrics[idx[r]], idx[r], data[r]))]
    /\ idx' = [idx EXCEPT ![r] = @ + 1]
    /\ UNCHANGED <<metrics, data, pc, elems, ei, crashed, call>>

\* Collect, lines 88 to 105 and 136 to 139: the array is extracted; the loop
\* over an empty jsonData ends at once
ObjectScrape(r) ==
    /\ ~crashed
    /\ pc[r] = "loop"
    /\ idx[r] <= Len(metrics)
    /\ metrics[idx[r]].Type = ObjectScrapeType
    /\ LET a == ObjectScrapeArray(metrics[idx[r]], data[r])
       IN  IF a.err \/ a.arr = <<>>
           THEN /\ idx' = [idx EXCEPT ![r] = @ + 1]
                /\ UNCHANGED <<pc, elems, ei>>
           ELSE /\ elems' = [elems EXCEPT ![r] = a.arr]
                /\ ei' = [ei EXCEPT ![r] = 1]
                /\ pc' = [pc EXCEPT ![r] = "elems"]
                /\ UNCHANGED idx
    /\ UNCHANGED <<metrics, data, emitted, crashed, call>>

\* Collect, lines 105 to 135: one element of jsonData
ObjectElement(r) ==
    /\ ~crashed
    /\ pc[r] = "elems"
    /\ LET res == ObjectElementMetrics(metrics[idx[r]], idx[r], ei[r], elems[r][ei[r]], data[r])
       IN  IF res.panic
           THEN /\ pc' = [pc EXCEPT ![r] = "panic"]
                /\ crashed' = TRUE
                /\ UNCHANGED <<emitted, idx, elems, ei>>
           ELSE /\ emitted' = [emitted EXCEPT ![r] = SendAll(@, res.sent)]
                /\ crashed' = crashed
                /\ IF ei[r] < Len(elems[r])
                   THEN /\ ei' = [ei EXCEPT ![r] = @ + 1]
                        /\ UNCHANGED <<pc, idx, elems>>
                   ELSE /\ ei' = [ei EXCEPT ![r] = 0]
                        /\ elems' = [elems EXCEPT ![r] = <<>>]
                        /\ idx' = [idx EXCEPT ![r] = @ + 1]
                        /\ pc' = [pc EXCEPT ![r] = "loop"]
    /\ UNCHANGED <<metrics, data, call>>

\* Collect, lines 140 to 142
UnknownScrape(r) ==
    /\ ~crashed
    /\ pc[r] = "loop"
    /\ idx[r] <= Len(metrics)
    /\ metrics[idx[r]].Type \notin {ValueScrapeType, ObjectScrapeType}
    /\ idx' = [idx EXCEPT ![r] = @ + 1]
    /\ UNCHANGED <<metrics, data, pc, elems, ei, emitted, crashed, call>>

\* Collect, line 145: the range over JSONMetrics is over
CollectEnd(r) ==
    /\ ~crashed
    /\ pc[r] = "loop"
    /\ idx[r] > Len(metrics)
    /\ pc' = [pc EXCEPT ![r] = "done"]
    /\ UNCHANGED <<metrics, data, idx, elems, ei, emitted, crashed, call>>

Next ==
    \E r \in Runs :
        \/ CollectBegin(r)
        \/ ValueScrape(r)
        \/ ObjectScrape(r)
        \/ ObjectElement(r)
        \/ UnknownScrape(r)
        \/ CollectEnd(r)

Spec == Init /\ [][Next]_vars

SpecConc == InitConc /\ [][Next]_vars

(***************************************************************************)
(* The helpers applied on their own to inputs drawn from bounded sets      *)
(***************************************************************************)
RawTexts ==
    { <<"U", "P">>, <<"u", "p">>, <<"D", "o", "w", "n">>, <<"B", "a", "d">>,
      <<"3">>, <<"1", "E", "5">>, <<>> }

LabelPaths ==
    { PathStatus, PathRootStatus, PathN, PathNone, PathDev, PathProd,
      PathNLate, PathRoot, PathUnclosed }

\* The longest list of label paths
MaxLabels == 2

LabelLists == UNION { [1..n -> LabelPaths] : n \in 0..MaxLabels }

\* A root document with one of the elements its items path yields
ScopePairs ==
    UNION { LET a == ObjectScrapeArray([KeyJSONPath |-> PathItems], d)
            IN  IF a.err THEN {} ELSE { <<d, a.arr[i]>> : i \in DOMAIN a.arr }
            : d \in Docs }

InitFn ==
    /\ metrics = <<>>
    /\ data = [r \in Runs |-> Doc4]
    /\ pc = [r \in Runs |-> "off"]
    /\ idx = [r \in Runs |-> 0]
    /\ elems = [r \in Runs |-> <<>>]
    /\ ei = [r \in Runs |-> 0]
    /\ emitted = [r \in Runs |-> <<>>]
    /\ crashed = FALSE
    /\ call = NoCall

CallConvert ==
    /\ call.fn = "none"
    /\ \E m \in MetricPool, raw \in RawTexts :
          call' = [NoCall EXCEPT !.fn = "convertValueIfNeeded", !.m = m, !.raw = raw,
                                 !.conv = convertValueIfNeeded(m, raw)]
    /\ UNCHANGED <<metrics, data, pc, idx, elems, ei, emitted, crashed>>

CallSelect ==
    /\ call.fn = "none"
    /\ \E sp \in ScopePairs, path \in LabelPaths :
          LET selected == selectRightJsonData(sp[1], sp[2], path)
          IN  call' = [NoCall EXCEPT !.fn = "selectRightJsonData", !.root = sp[1],
                                     !.child = sp[2], !.path = path,
                                     !.sel = [panic |-> selected.panic, scope |-> selected.scope]]
    /\ UNCHANGED <<metrics, data, pc, idx, elems, ei, emitted, crashed>>

CallExtractLabels ==
    /\ call.fn = "none"
    /\ \E d \in Docs, paths \in LabelLists :
          call' = [NoCall EXCEPT !.fn = "extractLabels", !.root = d, !.paths = paths,
                                 !.plain = extractLabels(d, paths)]
    /\ UNCHANGED <<metrics, data, pc, idx, elems, ei, emitted, crashed>>

CallExtractLabelsWithParentNode ==
    /\ call.fn = "none"
    /\ \E sp \in ScopePairs, paths \in LabelLists :
          call' = [NoCall EXCEPT !.fn = "extractLabelsWithParentNode", !.root = sp[1],
                                 !.child = sp[2], !.paths = paths,
                                 !.scoped = extractLabelsWithParentNode(sp[2], sp[1], paths)]
    /\ UNCHANGED <<metrics, data, pc, idx, elems, ei, emitted, crashed>>

NextFn ==
    \/ CallConvert
    \/ CallSelect
    \/ CallExtractLabels
    \/ CallExtractLabelsWithParentNode

SpecFn == InitFn /\ [][NextFn]_vars


(***************************************************************************)
(* Properties                                                              *)
(***************************************************************************)
Ended(r) == pc[r] \in {"done", "panic"}

\* The observations of descriptor di, in the order they were sent
SentFor(ch, di) == SelectSeq(ch, LAMBDA o : o.di = di)

\* The element positions of a sequence of observations
RECURSIVE ElementsOf(_)
ElementsOf(ch) == IF ch = <<>> THEN <<>> ELSE <<Head(ch).el>> \o ElementsOf(Tail(ch))

\* C1: a run of Collect is never aborted: whatever the descriptors and the
\* payload, it ends after the last descriptor, having visited every one.
C1_CollectCompletes ==
    \A r \in Runs :
        /\ pc[r] # "panic"
        /\ pc[r] = "done" => idx[r] = Len(metrics) + 1

\* C2: from its first step on, a run has emitted the exporter status
\* observation (value 0, no labels) exactly once, whatever became of the
\* descriptors.
C2_StatusExactlyOnce ==
    \A r \in Runs :
        IF pc[r] \in {"off", "init"} THEN emitted[r] = <<>>
        ELSE /\ Cardinality({i \in DOMAIN emitted[r] : emitted[r][i].di = 0}) = 1
             /\ \A i \in DOMAIN emitted[r] :
                    emitted[r][i].di = 0 =>
                        /\ emitted[r][i].value = 0
                        /\ emitted[r][i].labels = <<>>

\* C2 witness: a finished run of two descriptors, the first of which
\* produced an observation and the second none.
C2_Witness ==
    /\ pc[1] = "done"
    /\ Len(metrics) = 2
    /\ SentFor(emitted[1], 1) # <<>>
    /\ SentFor(emitted[1], 2) = <<>>

\* C3: convertValueIfNeeded returns the replacement on a hit and the raw
\* value exactly as given, letter case included, in every other case.
C3_ConvertKeepsRawOnMiss ==
    call.fn = "convertValueIfNeeded" =>
        call.conv =
            IF /\ call.m.ValueJSONPath \in DOMAIN call.m.ValueConverter
               /\ ToLower(call.raw) \in DOMAIN call.m.ValueConverter[call.m.ValueJSONPath]
            THEN call.m.ValueConverter[call.m.ValueJSONPath][ToLower(call.raw)]
            ELSE call.raw

\* The path, its spaces removed, begins with the root marker (alone or
\* inside the opening brace of the template)
BeginsWithRootAnchor(path) ==
    LET p == RemoveSpaces(path)
    IN  \/ Len(p) >= 1 /\ p[1] = "$"
        \/ Len(p) >= 2 /\ p[1] = "{" /\ p[2] = "$"

\* C4: a label path of an array element is evaluated against the root
\* document if and only if it begins, spaces removed, with the root marker,
\* and against the element otherwise.
C4_RootScopeIffAnchored ==
    call.fn = "selectRightJsonData" =>
        IF BeginsWithRootAnchor(call.path) THEN call.sel.scope = "root"
        ELSE call.sel.scope = "child"

\* The timestamps the epoch path of descriptor m yields for an observation
EpochValues(m, o, root) ==
    LET a == ObjectScrapeArray(m, root)
        scopes == {root} \cup (IF o.el > 0 /\ ~a.err /\ o.el <= Len(a.arr)
                               THEN {a.arr[o.el]} ELSE {})
    IN  { SanitizeValue(extractValue(b, m.EpochTimestampJSONPath, FALSE).out).val :
              b \in {x \in scopes : ~extractValue(x, m.EpochTimestampJSONPath, FALSE).err} }

\* C5: an observation of a descriptor with an epoch timestamp path carries
\* the timestamp that path yields, and an observation has no timestamp only
\* when its descriptor has no such path.
C5_EpochTimestampAttached ==
    \A r \in Runs : \A i \in DOMAIN emitted[r] :
        LET o == emitted[r][i]
        IN  o.di > 0 =>
                IF metrics[o.di].EpochTimestampJSONPath # <<>>
                THEN o.ts.set /\ o.ts.at \in EpochValues(metrics[o.di], o, data[r])
                ELSE ~o.ts.set

\* The positions of the elements whose value path matches and whose
\* converted value normalizes, in document order
RECURSIVE SurvivingElements(_, _, _)
SurvivingElements(m, arr, el) ==
    IF el > Len(arr) THEN <<>>
    ELSE LET value == extractValue(arr[el], m.ValueJSONPath, FALSE)
             ok == ~value.err /\ ~SanitizeValue(convertValueIfNeeded(m, value.out)).err
         IN  (IF ok THEN <<el>> ELSE <<>>) \o SurvivingElements(m, arr, el + 1)

\* C6: when a run has ended, an ObjectScrape descriptor whose key path gave
\* an array has exactly one observation for each element whose value path
\* matches and whose converted value normalizes, in document order.
C6_OnePerSurvivingElement ==
    \A r \in Runs :
        Ended(r) =>
            \A di \in DOMAIN metrics :
                LET a == ObjectScrapeArray(metrics[di], data[r])
                IN  (metrics[di].Type = ObjectScrapeType /\ ~a.err) =>
                        ElementsOf(SentFor(emitted[r], di)) = SurvivingElements(metrics[di], a.arr, 1)

\* C7: when a run has ended, a ScalarScrape descriptor has one observation,
\* with the normalized text of its key path as value and its labels
\* resolved against the root document, when the key path matches and the
\* text normalizes, and none otherwise.
C7_ScalarAtMostOne ==
    \A r \in Runs :
        Ended(r) =>
            \A di \in DOMAIN metrics :
                LET m == metrics[di]
                    value == extractValue(data[r], m.KeyJSONPath, FALSE)
                    float == SanitizeValue(value.out)
                    sent == SentFor(emitted[r], di)
                IN  m.Type = ValueScrapeType =>
                        IF value.err \/ float.err THEN sent = <<>>
                        ELSE /\ Len(sent) = 1
                             /\ sent[1].value = float.val
                             /\ Len(sent[1].labels) = Len(m.LabelsJSONPaths)
                             /\ \A i \in DOMAIN m.LabelsJSONPaths :
                                    sent[1].labels[i] = LabelAt(data[r], m.LabelsJSONPaths[i])

\* C8: label resolution always returns one value per label path, the empty
\* string where a path fails, whatever the other paths do.
C8_OneLabelPerPath ==
    /\ call.fn = "extractLabels" =>
            /\ Len(call.plain) = Len(call.paths)
            /\ \A i \in DOMAIN call.paths : call.plain[i] = LabelAt(call.root, call.paths[i])
    /\ call.fn = "extractLabelsWithParentNode" =>
            /\ ~call.scoped.panic
            /\ Len(call.scoped.labels) = Len(call.paths)
            /\ \A i \in DOMAIN call.paths :
                   call.scoped.labels[i] \in
                       {LabelAt(call.root, call.paths[i]), LabelAt(call.child, call.paths[i])}

\* C9: the observations of a run are in order: the exporter status first,
\* then by descriptor position, and within a descriptor by element position.
C9_EmissionOrder ==
    \A r \in Runs :
        LET ch == emitted[r]
        IN  /\ ch # <<>> => ch[1].di = 0
            /\ \A i, j \in DOMAIN ch :
                   i < j => \/ ch[i].di < ch[j].di
                            \/ ch[i].di = ch[j].di /\ ch[i].el < ch[j].el

\* C9 witness: a finished run whose first descriptor gave two observations
\* and whose second gave one.
C9_Witness ==
    /\ pc[1] = "done"
    /\ Len(SentFor(emitted[1], 1)) >= 2
    /\ Len(SentFor(emitted[1], 2)) >= 1

\* What Collect sends for the elements of arr from position el on, when it
\* runs alone
RECURSIVE AloneElements(_, _, _, _, _, _)
AloneElements(m, di, arr, el, root, ch) ==
    IF el > Len(arr) THEN [panic |-> FALSE, ch |-> ch]
    ELSE LET res == ObjectElementMetrics(m, di, el, arr[el], root)
         IN  IF res.panic THEN [panic |-> TRUE, ch |-> ch]
             ELSE AloneElements(m, di, arr, el + 1, root, SendAll(ch, res.sent))

\* What Collect sends for the descriptors from position di on, when it runs
\* alone
RECURSIVE AloneFrom(_, _, _, _)
AloneFrom(ms, di, root, ch) ==
    IF di > Len(ms) THEN ch
    ELSE CASE ms[di].Type = ValueScrapeType ->
                AloneFrom(ms, di + 1, root, SendAll(ch, ValueScrapeMetrics(ms[di], di, root)))
           [] ms[di].Type = ObjectScrapeType ->
                LET a == ObjectScrapeArray(ms[di], root)
                    e == AloneElements(ms[di], di, a.arr, 1, root, ch)
                IN  IF a.err THEN AloneFrom(ms, di + 1, root, ch)
                    ELSE IF e.panic THEN e.ch
                    ELSE AloneFrom(ms, di + 1, root, e.ch)
           [] OTHER -> AloneFrom(ms, di + 1, root, ch)

CollectAlone(ms, root) == AloneFrom(ms, 1, root, EmitStatus(<<>>))

\* C10: once the runs are over, each of them has emitted exactly what it
\* emits when it is the only run.
C10_RunsIndependent ==
    (crashed \/ \A r \in Runs : pc[r] = "done") =>
        \A r \in Runs : emitted[r] = CollectAlone(metrics, data[r])

====
